---- MODULE Spec2Model ----
(***************************************************************************)
(* Model of PaperPulse: the paper list's filter/sort pipeline              *)
(* (components/PaperList.tsx, components/FilterBar.tsx), the retry policy  *)
(* and the streaming review/chat generators (lib/ai, stored as             *)
(* types/paper.ts) and the Discussion view that consumes them              *)
(* (components/Discussion.tsx).                                            *)
(*                                                                         *)
(* JavaScript strings are sequences of one-character strings, so that      *)
(* toLowerCase, includes, localeCompare, trim, match and split are         *)
(* computed character by character.                                        *)
(***************************************************************************)
EXTENDS Integers, Sequences, FiniteSets, TLC

VARIABLES
    \* ---- PaperList.tsx ----
    fetched,        \* data.papers as fetchPapers() returned it (history)
    papers,         \* the array object data.papers as it is now
    searchQuery,    \* useState('')
    sortBy,         \* useState('date_desc')
    selectedTags,   \* useState([])
    view,           \* filteredAndSortedPapers (memo value)
    availableTags,  \* availableTags (memo value)
    rendered,       \* the component has rendered with the data
    \* ---- lib/ai: retry ----
    op,             \* one run of retry(operation)
    \* ---- lib/ai: module state ----
    apiKey,         \* import.meta.env.VITE_GOOGLE_API_KEY (optional)
    model,          \* whether `model` was assigned at module load
    \* ---- the review stream of one Discussion view ----
    reviewText,     \* the response the backend is going to stream
    rv,             \* streamInitialPaperReview + loadInitialReview
    review,         \* useState<PaperReview | null>(null)
    isLoadingReview,\* useState(true)
    error,          \* useState<string | null>(null)
    \* ---- the chat session of the view ----
    ch,             \* streamChatWithPaper + handleSubmit
    messages,       \* useState<Message[]>([])
    input,          \* useState('')
    isLoading,      \* useState(false)
    streamingMessage, \* useState<Message | null>(null)
    \* ---- PaperDetail.tsx: the Obsidian note ----
    nt,             \* generateObsidianNote + generateNote
    noteContent,    \* useState<string>('')
    isGeneratingNote, \* useState(false)
    noteError       \* useState<string | null>(null)

listVars == <<fetched, papers, searchQuery, sortBy, selectedTags, view,
              availableTags, rendered>>

aiVars == <<apiKey, model>>
reviewVars == <<reviewText, rv, review, isLoadingReview>>
chatVars == <<ch, messages, input, isLoading, streamingMessage>>
noteVars == <<nt, noteContent, isGeneratingNote, noteError>>

vars == <<listVars, op, aiVars, reviewVars, error, chatVars, noteVars>>

(***************************************************************************)
(* Generic helpers on sequences.                                           *)
(***************************************************************************)
Range(s) == {s[i] : i \in 1..Len(s)}

RECURSIVE SeqFilter(_, _)
\* Array.prototype.filter with the predicate given as the set of kept values
SeqFilter(s, keep) ==
    IF s = <<>> THEN <<>>
    ELSE IF Head(s) \in keep THEN <<Head(s)>> \o SeqFilter(Tail(s), keep)
         ELSE SeqFilter(Tail(s), keep)

\* String.prototype.startsWith at offset i (1-based) of s
MatchesAt(s, i, lit) ==
    /\ i + Len(lit) - 1 <= Len(s)
    /\ \A k \in 1..Len(lit) : s[i + k - 1] = lit[k]

\* String.prototype.includes
includes(s, sub) == \E i \in 1..(Len(s) + 1) : MatchesAt(s, i, sub)

(***************************************************************************)
(* Characters.                                                             *)
(***************************************************************************)
Upper == <<"A", "B", "C">>
Lower == <<"a", "b", "c">>

\* String.prototype.toLowerCase on one character
toLowerChar(c) ==
    IF \E i \in 1..Len(Upper) : Upper[i] = c
    THEN Lower[CHOOSE i \in 1..Len(Upper) : Upper[i] = c]
    ELSE c

toLowerCase(s) == [i \in 1..Len(s) |-> toLowerChar(s[i])]

isUpperChar(c) == \E i \in 1..Len(Upper) : Upper[i] = c

\* UTF-16 code unit of a letter: 'A' is 65, 'a' is 97
CodeUnit(c) ==
    IF \E i \in 1..Len(Upper) : Upper[i] = c
    THEN 64 + (CHOOSE i \in 1..Len(Upper) : Upper[i] = c)
    ELSE IF \E i \in 1..Len(Lower) : Lower[i] = c
         THEN 96 + (CHOOSE i \in 1..Len(Lower) : Lower[i] = c)
         ELSE 32

RECURSIVE LexCompare(_, _, _)
\* three-way lexicographic comparison of a and b from index i on, by code unit
LexCompare(a, b, i) ==
    IF i > Len(a) /\ i > Len(b) THEN 0
    ELSE IF i > Len(a) THEN -1
    ELSE IF i > Len(b) THEN 1
    ELSE IF CodeUnit(a[i]) < CodeUnit(b[i]) THEN -1
    ELSE IF CodeUnit(a[i]) > CodeUnit(b[i]) THEN 1
    ELSE LexCompare(a, b, i + 1)

RECURSIVE CaseCompare(_, _, _)
\* tertiary (case) difference of two strings that are equal ignoring case:
\* at the first difference the lowercase letter sorts first
CaseCompare(a, b, i) ==
    IF i > Len(a) \/ i > Len(b) THEN 0
    ELSE IF a[i] = b[i] THEN CaseCompare(a, b, i + 1)
    ELSE IF isUpperChar(b[i]) THEN -1 ELSE 1

CodeUnitCompareMutant(a, b) == LexCompare(a, b, 1)
\* String.prototype.localeCompare (ICU root collation on letters): letters
\* first, ignoring case; case decides only between otherwise equal strings
localeCompare(a, b) ==
    LET primary == LexCompare(toLowerCase(a), toLowerCase(b), 1)
    IN  IF primary # 0 THEN primary ELSE CaseCompare(a, b, 1)

(***************************************************************************)
(* Papers (types/paper.ts, lib/api.ts).  An optional field is a sequence   *)
(* of zero or one values; publicationDate holds the time value the Date    *)
(* constructor parses from the ISO string the API delivers.                *)
(***************************************************************************)
MaxPapers == 4

Paper(id, title, abstract, authors, date, tags, upvotes) ==
    [id |-> id, title |-> title, abstract |-> abstract, authors |-> authors,
     publicationDate |-> date, tags |-> tags, upvotes |-> upvotes]

Author(name, user) == [name |-> name, user |-> user]
NoUser == <<>>
User(fullname) == << [fullname |-> fullname] >>

PaperPool ==
    { Paper(1, <<"B">>, <<"c", "a">>,
            << Author(<<"a", "b">>, NoUser) >>, 2, << <<"a">> >>, 5),
      Paper(2, <<"a">>, <<"c">>,
            << Author(<<"b">>, User(<< <<"C", "a">> >>)) >>, 1,
            << <<"a">>, <<"B">> >>, 1),
      Paper(3, <<"C">>, <<"b", "b">>,
            << Author(<<"c">>, User(<<>>)), Author(<<"A">>, User(<< <<>> >>)) >>,
            2, <<>>, 9),
      Paper(4, <<"a", "B">>, <<"C">>, <<>>, 3, << <<"B">> >>, 3),
      Paper(5, <<"b">>, <<"a", "c">>,
            << Author(<<"B", "a">>, NoUser) >>, 1, << <<"B">>, <<"a">> >>, 5) }

\* what fetchPapers() can return: up to MaxPapers distinct papers in any order
Collections ==
    { c \in UNION { [1..n -> PaperPool] : n \in 0..MaxPapers } :
        \A i, j \in DOMAIN c : i # j => c[i] # c[j] }

SearchInputs == { <<>>, <<"B">>, <<"c", "a">> }
SortKeys == { "date_desc", "date_asc", "upvotes", "title" }

(***************************************************************************)
(* PaperList.tsx: availableTags                                            *)
(***************************************************************************)
RECURSIVE InsertSorted(_, _)
\* position of tag t in a code-unit ordered list (Array.prototype.sort())
InsertSorted(s, t) ==
    IF s = <<>> THEN <<t>>
    ELSE IF LexCompare(t, Head(s), 1) < 0 THEN <<t>> \o s
         ELSE <<Head(s)>> \o InsertSorted(Tail(s), t)

RECURSIVE DefaultSort(_)
DefaultSort(s) ==
    IF s = <<>> THEN <<>> ELSE InsertSorted(DefaultSort(Tail(s)), Head(s))

RECURSIVE AddAll(_, _)
\* Set.prototype.add of every element of ts, in order (insertion-ordered set)
AddAll(acc, ts) ==
    IF ts = <<>> THEN acc
    ELSE AddAll(IF Head(ts) \in Range(acc) THEN acc ELSE Append(acc, Head(ts)),
                Tail(ts))

RECURSIVE CollectTags(_, _)
CollectTags(acc, ps) ==
    IF ps = <<>> THEN acc
    ELSE CollectTags(AddAll(acc, Head(ps).tags), Tail(ps))

UnsortedTagsMutant(ps) == CollectTags(<<>>, ps)
computeAvailableTags(ps) == DefaultSort(CollectTags(<<>>, ps))

(***************************************************************************)
(* PaperList.tsx: filteredAndSortedPapers                                  *)
(***************************************************************************)
\* author.user?.fullname || author.name
displayName(author) ==
    IF /\ author.user # <<>>
       /\ Head(author.user).fullname # <<>>
       /\ Head(Head(author.user).fullname) # <<>>
    THEN Head(Head(author.user).fullname)
    ELSE author.name

RawNameMutant(paper, query) ==
    \/ includes(toLowerCase(paper.title), query)
    \/ includes(toLowerCase(paper.abstract), query)
    \/ \E i \in 1..Len(paper.authors) :
          includes(toLowerCase(paper.authors[i].name), query)
\* the search predicate, query already lowercased
searchMatches(paper, query) ==
    \/ includes(toLowerCase(paper.title), query)
    \/ includes(toLowerCase(paper.abstract), query)
    \/ \E i \in 1..Len(paper.authors) :
          includes(toLowerCase(displayName(paper.authors[i])), query)

\* selectedTags.every(tag => paper.tags.includes(tag))
tagsMatch(paper, tags) == \A i \in 1..Len(tags) : tags[i] \in Range(paper.tags)

\* the comparator handed to sort
compare(key, a, b) ==
    CASE key = "date_asc"  -> a.publicationDate - b.publicationDate
      [] key = "date_desc" -> b.publicationDate - a.publicationDate
      [] key = "upvotes"   -> b.upvotes - a.upvotes
      [] key = "title"     -> localeCompare(a.title, b.title)
      [] OTHER             -> 0

RECURSIVE InsertStable(_, _, _)
\* x goes behind every element that does not sort after it
InsertStable(s, x, key) ==
    IF s = <<>> THEN <<x>>
    ELSE IF compare(key, Head(s), x) > 0 THEN <<x>> \o s
         ELSE <<Head(s)>> \o InsertStable(Tail(s), x, key)

RECURSIVE SortFrom(_, _, _)
SortFrom(done, rest, key) ==
    IF rest = <<>> THEN done
    ELSE SortFrom(InsertStable(done, Head(rest), key), Tail(rest), key)

RECURSIVE InsertUnstable(_, _, _)
InsertUnstable(s, x, key) ==
    IF s = <<>> THEN <<x>>
    ELSE IF compare(key, Head(s), x) >= 0 THEN <<x>> \o s
         ELSE <<Head(s)>> \o InsertUnstable(Tail(s), x, key)

RECURSIVE UnstableSortFrom(_, _, _)
UnstableSortFrom(done, rest, key) ==
    IF rest = <<>> THEN done
    ELSE UnstableSortFrom(InsertUnstable(done, Head(rest), key), Tail(rest), key)

UnstableSortMutant(s, key) == UnstableSortFrom(<<>>, s, key)
\* Array.prototype.sort(comparator): a stable sort
sort(s, key) == SortFrom(<<>>, s, key)

\* the memo callback: its value, and the array `papers` as it leaves it
\* (sort works in place, and `filtered` is `papers` itself unless a filter
\* made a new array)
filteredAndSortedPapers(ps, search, tags, key) ==
    LET query == toLowerCase(search)
        f1 == IF search # <<>>
              THEN SeqFilter(ps, {p \in Range(ps) : searchMatches(p, query)})
              ELSE ps
        f2 == IF Len(tags) > 0
              THEN SeqFilter(f1, {p \in Range(f1) : tagsMatch(p, tags)})
              ELSE f1
        sorted == sort(f2, key)
    IN  [value  |-> sorted,
         papers |-> IF search = <<>> /\ Len(tags) = 0 THEN sorted ELSE ps]

(***************************************************************************)
(* lib/ai (stored as types/paper.ts): string constants                     *)
(***************************************************************************)
StrNetwork ==
    <<"n", "e", "t", "w", "o", "r", "k">>

StrNotInitialized ==
    <<"A", "I", " ", "m", "o", "d", "e", "l", " ", "n", "o", "t", " ", "i",
      "n", "i", "t", "i", "a", "l", "i", "z", "e", "d", ".", " ", "P", "l",
      "e", "a", "s", "e", " ", "c", "h", "e", "c", "k", " ", "y", "o", "u",
      "r", " ", "A", "P", "I", " ", "k", "e", "y", " ", "c", "o", "n", "f",
      "i", "g", "u", "r", "a", "t", "i", "o", "n", ".">>

StrUnexpected ==
    <<"A", "n", " ", "u", "n", "e", "x", "p", "e", "c", "t", "e", "d", " ",
      "e", "r", "r", "o", "r", " ", "o", "c", "c", "u", "r", "r", "e", "d">>

StrFailedReview ==
    <<"F", "a", "i", "l", "e", "d", " ", "t", "o", " ", "g", "e", "n", "e",
      "r", "a", "t", "e", " ", "p", "a", "p", "e", "r", " ", "r", "e", "v",
      "i", "e", "w", ":", " ">>

StrFailedChat ==
    <<"F", "a", "i", "l", "e", "d", " ", "t", "o", " ", "g", "e", "n", "e",
      "r", "a", "t", "e", " ", "A", "I", " ", "r", "e", "s", "p", "o", "n",
      "s", "e", ":", " ">>

StrFailedNote ==
    <<"F", "a", "i", "l", "e", "d", " ", "t", "o", " ", "g", "e", "n", "e", "r",
      "a", "t", "e", " ", "n", "o", "t", "e", ":", " ">>

StrNoteFallback ==
    <<"F", "a", "i", "l", "e", "d", " ", "t", "o", " ", "g", "e", "n", "e", "r",
      "a", "t", "e", " ", "n", "o", "t", "e">>

StrErrorPrefix ==
    <<"E", "r", "r", "o", "r", ":", " ">>


(***************************************************************************)
(* lib/ai: retry                                                           *)
(*                                                                         *)
(* A thrown value is [isError, message]: isError says whether it is an     *)
(* instance of Error.  An optional value is a sequence of zero or one.     *)
(***************************************************************************)
MAX_RETRIES == 3
RETRY_DELAY == 1000

Thrown(isError, message) == [isError |-> isError, message |-> message]

\* what one invocation of the operation can do
Succeeds == [ok |-> TRUE, thrown |-> Thrown(FALSE, <<>>)]
Fails(e) == [ok |-> FALSE, thrown |-> e]

BackendErrors ==
    { Thrown(TRUE, StrNetwork),
      Thrown(TRUE, <<"n", "o", " ">> \o StrNetwork \o <<" ", "u", "p">>),
      Thrown(TRUE, <<"N", "e", "t", "w", "o", "r", "k">>),
      Thrown(TRUE, <<"q", "u", "o", "t", "a">>),
      Thrown(FALSE, StrNetwork) }

Outcomes == {Succeeds} \cup {Fails(e) : e \in BackendErrors}

\* the failures the generative backend shows a Discussion view
StreamErrors ==
    { Thrown(TRUE, StrNetwork), Thrown(TRUE, <<"q", "u", "o", "t", "a">>),
      Thrown(FALSE, StrNetwork) }
StreamOutcomes == {Succeeds} \cup {Fails(e) : e \in StreamErrors}

\* retry(operation) entered with the default arguments
RetryStart ==
    [pc |-> "call", retries |-> MAX_RETRIES, delay |-> RETRY_DELAY,
     calls |-> 0, waits |-> <<>>, outcomes |-> <<>>, thrown |-> <<>>]

RetryIdle == [RetryStart EXCEPT !.pc = "idle"]

RetryAnyErrorMutant(e) == e.isError
\* error instanceof Error && error.message.includes('network')
isRetryable(e) == e.isError /\ includes(e.message, StrNetwork)

RetryOneMoreMutant(r, outcome) ==
    LET r1 == [r EXCEPT !.calls = @ + 1, !.outcomes = Append(@, outcome)]
    IN  IF outcome.ok THEN [r1 EXCEPT !.pc = "returned"]
        ELSE IF r.retries >= 0 /\ isRetryable(outcome.thrown)
             THEN [r1 EXCEPT !.pc = "wait"]
             ELSE [r1 EXCEPT !.pc = "thrown", !.thrown = <<outcome.thrown>>]
RetryOnceMutant(r, outcome) ==
    LET r1 == [r EXCEPT !.calls = @ + 1, !.outcomes = Append(@, outcome)]
    IN  IF outcome.ok THEN [r1 EXCEPT !.pc = "returned"]
        ELSE IF r.retries > 1 /\ isRetryable(outcome.thrown)
             THEN [r1 EXCEPT !.pc = "wait"]
             ELSE [r1 EXCEPT !.pc = "thrown", !.thrown = <<outcome.thrown>>]
\* await operation(): return its result, or catch what it throws
RetryCall(r, outcome) ==
    LET r1 == [r EXCEPT !.calls = @ + 1, !.outcomes = Append(@, outcome)]
    IN  IF outcome.ok THEN [r1 EXCEPT !.pc = "returned"]
        ELSE IF r.retries > 0 /\ isRetryable(outcome.thrown)
             THEN [r1 EXCEPT !.pc = "wait"]
             ELSE [r1 EXCEPT !.pc = "thrown", !.thrown = <<outcome.thrown>>]

\* the timer fires: retry(operation, retries - 1, delay * 2)
RetryWake(r) ==
    [r EXCEPT !.pc = "call", !.waits = Append(@, r.delay),
              !.retries = @ - 1, !.delay = @ * 2]


(***************************************************************************)
(* lib/ai: streamInitialPaperReview, the section extraction                *)
(***************************************************************************)
LabelSummary ==
    <<"S", "U", "M", "M", "A", "R", "Y", ":">>

LabelNovelty ==
    <<"N", "O", "V", "E", "L", "T", "Y", ":">>

LabelQuestions ==
    <<"Q", "U", "E", "S", "T", "I", "O", "N", "S", ":">>

\* the characters \s matches and trim() strips
WhiteSpace == {" ", "\n", "\t"}
\* the characters \d matches
Digits == {"0", "1", "2", "3", "4", "5", "6", "7", "8", "9"}

RECURSIVE IndexOf(_, _, _)
\* first position at or after i where lit occurs in s, or 0
IndexOf(s, lit, i) ==
    IF i + Len(lit) - 1 > Len(s) THEN 0
    ELSE IF MatchesAt(s, i, lit) THEN i
    ELSE IndexOf(s, lit, i + 1)

RECURSIVE SkipWhile(_, _, _)
\* first position at or after i whose character is not in set (Len(s) + 1
\* when there is none): the end of a greedy \s* or \d*
SkipWhile(s, i, set) ==
    IF i > Len(s) THEN i
    ELSE IF s[i] \in set THEN SkipWhile(s, i + 1, set)
    ELSE i

RECURSIVE SkipBack(_, _)
\* last position at or before i whose character is not white space, or 0
SkipBack(s, i) ==
    IF i < 1 THEN 0
    ELSE IF s[i] \in WhiteSpace THEN SkipBack(s, i - 1)
    ELSE i

\* String.prototype.trim
trim(s) == SubSeq(s, SkipWhile(s, 1, WhiteSpace), SkipBack(s, Len(s)))

\* s.match(/LABEL\s*([\s\S]*?)(?=NEXT|$)/): the captured group in a
\* one-element sequence, or the empty sequence when there is no match.
\* next = <<>> stands for the pattern whose lookahead is (?=$) alone.
SectionMatch(s, label, next) ==
    LET at == IndexOf(s, label, 1)
        from == SkipWhile(s, at + Len(label), WhiteSpace)
        stop == IF next = <<>> THEN 0 ELSE IndexOf(s, next, from)
        to == IF stop = 0 THEN Len(s) ELSE stop - 1
    IN  IF at = 0 THEN <<>> ELSE << SubSeq(s, from, to) >>

\* end (exclusive) of a match of /\d+\.\s+/ that starts at position q, or 0
NumberingEnd(s, q) ==
    LET d == SkipWhile(s, q, Digits)
        w == SkipWhile(s, d + 1, WhiteSpace)
    IN  IF d > q /\ d <= Len(s) /\ s[d] = "." /\ w > d + 1 THEN w ELSE 0

RECURSIVE SplitFrom(_, _, _, _)
\* String.prototype.split(/\d+\.\s+/): p is the end of the last separator,
\* q the position tried next, acc the pieces so far
SplitFrom(s, p, q, acc) ==
    IF q > Len(s) THEN Append(acc, SubSeq(s, p, Len(s)))
    ELSE LET e == NumberingEnd(s, q)
         IN  IF e = 0 THEN SplitFrom(s, p, q + 1, acc)
             ELSE SplitFrom(s, e, e, Append(acc, SubSeq(s, p, q - 1)))

splitNumbered(s) == SplitFrom(s, 1, 1, <<>>)

UntrimmedMutant(pieces) == pieces
RECURSIVE TrimNonEmpty(_)
\* .filter(q => q.trim().length > 0).map(q => q.trim())
TrimNonEmpty(pieces) ==
    IF pieces = <<>> THEN <<>>
    ELSE IF Len(trim(Head(pieces))) > 0
         THEN <<trim(Head(pieces))>> \o TrimNonEmpty(Tail(pieces))
         ELSE TrimNonEmpty(Tail(pieces))

\* the partial review derived from the accumulated response: a record that
\* has a field only when its section is found
parseReview(fullResponse) ==
    LET summaryMatch == SectionMatch(fullResponse, LabelSummary, LabelNovelty)
        noveltyMatch == SectionMatch(fullResponse, LabelNovelty, LabelQuestions)
        questionsMatch == SectionMatch(fullResponse, LabelQuestions, <<>>)
        questions == IF questionsMatch = <<>> THEN <<>>
                     ELSE TrimNonEmpty(splitNumbered(questionsMatch[1]))
        fields == (IF summaryMatch # <<>> THEN {"summary"} ELSE {})
                  \cup (IF noveltyMatch # <<>> THEN {"novelty"} ELSE {})
                  \cup (IF Len(questions) > 0 THEN {"suggestedQuestions"} ELSE {})
    IN  [f \in fields |->
            CASE f = "summary" -> trim(summaryMatch[1])
              [] f = "novelty" -> trim(noveltyMatch[1])
              [] f = "suggestedQuestions" -> questions]

(***************************************************************************)
(* lib/ai: module initialisation                                           *)
(***************************************************************************)
\* Boolean(key && typeof key === 'string' && key.length > 20)
NonEmptyKeyMutant(key) == key # <<>> /\ Len(Head(key)) > 0
\* Boolean(key && typeof key === 'string' && key.length > 20)
isValidApiKey(key) == key # <<>> /\ Len(Head(key)) > 20

KeyOfLength(n) == << [i \in 1..n |-> "k"] >>
ApiKeys == { <<>>, KeyOfLength(0), KeyOfLength(20), KeyOfLength(21) }

\* error instanceof Error ? error.message : fallback
messageOf(e, fallback) == IF e.isError THEN e.message ELSE fallback

\* the catch block of a generator: throw new Error(`${prefix}${message}`)
wrapError(prefix, e) == Thrown(TRUE, prefix \o messageOf(e, StrUnexpected))

(***************************************************************************)
(* The responses the generative backend streams for a review               *)
(***************************************************************************)
MaxChunks == 3

\* 'SUMMARY: s NOVELTY: n QUESTIONS: 1. q1 2. q2' with sep between the parts
FormText(s, n, q1, q2, sep) ==
    LabelSummary \o <<" ">> \o s \o sep \o LabelNovelty \o <<" ">> \o n \o sep
    \o LabelQuestions \o sep \o <<"1", ".", " ">> \o q1 \o sep
    \o <<"2", ".", " ">> \o q2

Formed(s, n, q1, q2, sep) ==
    [form |-> TRUE, s |-> s, n |-> n, q1 |-> q1, q2 |-> q2,
     text |-> FormText(s, n, q1, q2, sep)]

Unformed(text) ==
    [form |-> FALSE, s |-> <<>>, n |-> <<>>, q1 |-> <<>>, q2 |-> <<>>,
     text |-> text]

StrWhy == <<"W", "h", "y", "?">>
StrHow == <<"H", "o", "w", "?">>

ExampleReview ==
    Formed(<<"A", " ", "p", "a", "p", "e", "r", ".">>,
           <<"I", "t", " ", "i", "s", " ", "n", "e", "w", ".">>,
           StrWhy, StrHow, <<"\n">>)

ReviewTexts ==
    { ExampleReview,
      Formed(<<"a">>, <<"b">>, StrWhy, StrHow, <<" ">>),
      Formed(<<"a">>, <<"b">>, <<"s", "e", "e", " ", "2", ".", " ", "x">>,
             <<"y">>, <<" ">>),
      Formed(<<"a", " ">>, <<"b">>, <<"v", "1", ".">>, <<"y">>, <<" ">>),
      Formed(<<>>, <<"b">>, <<"R", "2", "?">>, <<"y">>, <<"\n">>),
      Unformed(<<"S", "o", "r", "r", "y", ".">>),
      Unformed(LabelNovelty \o <<" ", "b", " ">> \o LabelSummary \o <<" ", "a">>) }

(***************************************************************************)
(* Discussion.tsx: values                                                  *)
(***************************************************************************)
\* { ...partialReview, ...chunk }
mergeReview(prev, chunk) ==
    [f \in DOMAIN prev \cup DOMAIN chunk |->
        IF f \in DOMAIN chunk THEN chunk[f] ELSE prev[f]]

userMessage(content) == [role |-> "user", content |-> content]
streamingMsg(content) ==
    [role |-> "assistant", content |-> content, isStreaming |-> TRUE]
StillStreamingMutant(content) == streamingMsg(content)
assistantMessage(content) == [role |-> "assistant", content |-> content]
ErrorRoleMutant(message) ==
    [role |-> "error", content |-> StrErrorPrefix \o message]
\* { role: 'assistant', content: `Error: ${message}` }
errorMessage(message) == assistantMessage(StrErrorPrefix \o message)

(***************************************************************************)
(* PaperList: state, events                                                *)
(***************************************************************************)
InitList ==
    /\ fetched \in Collections
    /\ papers = fetched
    /\ searchQuery = <<>>
    /\ sortBy = "date_desc"
    /\ selectedTags = <<>>
    /\ view = <<>>
    /\ availableTags = <<>>
    /\ rendered = FALSE

\* run the filteredAndSortedPapers memo with the given dependencies
Derive(search, tags, key) ==
    LET r == filteredAndSortedPapers(papers, search, tags, key)
    IN  /\ view' = r.value
        /\ papers' = r.papers

\* first render once the query has delivered the data: both memos run
Render ==
    /\ ~rendered
    /\ rendered' = TRUE
    /\ availableTags' = computeAvailableTags(papers)
    /\ Derive(searchQuery, selectedTags, sortBy)
    /\ UNCHANGED <<fetched, searchQuery, sortBy, selectedTags>>

\* if (papers.length === 0) the list renders "No papers available." alone;
\* otherwise the FilterBar with its search box, sort select and tag buttons
FilterBarShown == rendered /\ Len(papers) > 0

\* FilterBar: typing in the search box
SetSearchQuery ==
    /\ FilterBarShown
    /\ \E s \in SearchInputs :
          /\ s # searchQuery
          /\ searchQuery' = s
          /\ Derive(s, selectedTags, sortBy)
    /\ UNCHANGED <<fetched, sortBy, selectedTags, availableTags, rendered>>

\* FilterBar: choosing a sort order
SetSortBy ==
    /\ FilterBarShown
    /\ \E k \in SortKeys :
          /\ k # sortBy
          /\ sortBy' = k
          /\ Derive(searchQuery, selectedTags, k)
    /\ UNCHANGED <<fetched, searchQuery, selectedTags, availableTags, rendered>>

\* FilterBar: clicking a tag button toggles it
ToggleTag ==
    /\ FilterBarShown
    /\ \E t \in Range(availableTags) :
          LET tags == IF t \in Range(selectedTags)
                      THEN SeqFilter(selectedTags, Range(selectedTags) \ {t})
                      ELSE Append(selectedTags, t)
          IN  /\ selectedTags' = tags
              /\ Derive(searchQuery, tags, sortBy)
    /\ UNCHANGED <<fetched, searchQuery, sortBy, availableTags, rendered>>

\* React runs the memo callbacks again with unchanged dependencies
\* (StrictMode double invocation, a discarded memo cache)
Recompute ==
    /\ rendered
    /\ availableTags' = computeAvailableTags(papers)
    /\ Derive(searchQuery, selectedTags, sortBy)
    /\ UNCHANGED <<fetched, searchQuery, sortBy, selectedTags, rendered>>

(***************************************************************************)
(* retry: one run with an arbitrary operation                              *)
(***************************************************************************)
InitRetry == op = RetryStart

OpInvoke ==
    /\ op.pc = "call"
    /\ \E o \in Outcomes : op' = RetryCall(op, o)

OpTimer ==
    /\ op.pc = "wait"
    /\ op' = RetryWake(op)

(***************************************************************************)
(* lib/ai module load                                                      *)
(***************************************************************************)
InitAI ==
    /\ apiKey \in ApiKeys
    /\ model = isValidApiKey(apiKey)

\* the same with one missing and one valid key
InitAITwo ==
    /\ apiKey \in {<<>>, KeyOfLength(21)}
    /\ model = isValidApiKey(apiKey)

(***************************************************************************)
(* Discussion.tsx: the review stream (loadInitialReview consuming          *)
(* streamInitialPaperReview)                                               *)
(***************************************************************************)
EmptyRecord == [f \in {} |-> <<>>]

ReviewIdle ==
    [pc |-> "idle", req |-> RetryIdle, fullResponse |-> <<>>, rest |-> <<>>,
     chunks |-> 0, bad |-> 0, emitted |-> 0, last |-> <<>>,
     partialReview |-> EmptyRecord, thrown |-> <<>>]

InitReview ==
    /\ reviewText \in ReviewTexts
    /\ rv = ReviewIdle
    /\ review = <<>>
    /\ isLoadingReview = TRUE
    /\ error = <<>>

ReviewResetMutant(e, req) ==
    /\ rv' = [rv EXCEPT !.pc = "failed", !.req = req, !.thrown = <<e>>]
    /\ error' = << messageOf(e, StrUnexpected) >>
    /\ isLoadingReview' = FALSE
    /\ review' = <<>>
\* the generator throws e, its request left as req: loadInitialReview's
\* catch and finally
ReviewFails(e, req) ==
    /\ rv' = [rv EXCEPT !.pc = "failed", !.req = req, !.thrown = <<e>>]
    /\ error' = << messageOf(e, StrUnexpected) >>
    /\ isLoadingReview' = FALSE
    /\ UNCHANGED review

\* the effect runs: setError(null), then the generator starts
Mount ==
    /\ rv.pc = "idle"
    /\ IF ~model
       THEN ReviewFails(Thrown(TRUE, StrNotInitialized), rv.req)
       ELSE /\ rv' = [rv EXCEPT !.pc = "request", !.req = RetryStart,
                                !.rest = reviewText.text]
            /\ error' = <<>>
            /\ UNCHANGED <<review, isLoadingReview>>
    /\ UNCHANGED reviewText

\* the retried request model.generateContentStream(prompt) settles
ReviewRequest ==
    /\ rv.pc = "request"
    /\ \E o \in StreamOutcomes :
          LET r == RetryCall(rv.req, o)
          IN  CASE r.pc = "returned" ->
                      /\ rv' = [rv EXCEPT !.pc = "stream", !.req = r]
                      /\ UNCHANGED <<review, isLoadingReview, error>>
                [] r.pc = "wait" ->
                      /\ rv' = [rv EXCEPT !.pc = "backoff", !.req = r]
                      /\ UNCHANGED <<review, isLoadingReview, error>>
                [] OTHER ->
                      ReviewFails(wrapError(StrFailedReview, Head(r.thrown)), r)
    /\ UNCHANGED reviewText

\* the backoff timer of retry fires
ReviewBackoff ==
    /\ rv.pc = "backoff"
    /\ rv' = [rv EXCEPT !.pc = "request", !.req = RetryWake(rv.req)]
    /\ UNCHANGED <<reviewText, review, isLoadingReview, error>>

ParseFragmentOnlyMutant ==
    /\ rv.pc = "stream"
    /\ rv.chunks < MaxChunks
    /\ \E n \in 0..Len(rv.rest) :
          LET fullResponse == rv.fullResponse \o SubSeq(rv.rest, 1, n)
              partialReview == parseReview(SubSeq(rv.rest, 1, n))
              merged == mergeReview(rv.partialReview, partialReview)
          IN  /\ rv' = [rv EXCEPT !.fullResponse = fullResponse,
                                  !.rest = SubSeq(rv.rest, n + 1, Len(rv.rest)),
                                  !.chunks = @ + 1, !.emitted = @ + 1,
                                  !.last = <<partialReview>>,
                                  !.partialReview = merged]
              /\ review' = <<merged>>
    /\ UNCHANGED <<reviewText, isLoadingReview, error>>
\* a fragment with readable text arrives: parse, yield, merge, setReview
ReviewChunk ==
    /\ rv.pc = "stream"
    /\ rv.chunks < MaxChunks
    /\ \E n \in 0..Len(rv.rest) :
          LET fullResponse == rv.fullResponse \o SubSeq(rv.rest, 1, n)
              partialReview == parseReview(fullResponse)
              merged == mergeReview(rv.partialReview, partialReview)
          IN  /\ rv' = [rv EXCEPT !.fullResponse = fullResponse,
                                  !.rest = SubSeq(rv.rest, n + 1, Len(rv.rest)),
                                  !.chunks = @ + 1, !.emitted = @ + 1,
                                  !.last = <<partialReview>>,
                                  !.partialReview = merged]
              /\ review' = <<merged>>
    /\ UNCHANGED <<reviewText, isLoadingReview, error>>

ReviewBadChunkFatalMutant ==
    /\ rv.pc = "stream"
    /\ rv.chunks < MaxChunks
    /\ LET e == wrapError(StrFailedReview, Thrown(TRUE, <<"b", "a", "d">>))
       IN  /\ rv' = [rv EXCEPT !.chunks = @ + 1, !.bad = @ + 1,
                               !.pc = "failed", !.thrown = <<e>>]
           /\ error' = <<e.message>>
    /\ isLoadingReview' = FALSE
    /\ UNCHANGED <<reviewText, review>>
\* a fragment whose text() throws: logged, nothing yielded
ReviewBadChunk ==
    /\ rv.pc = "stream"
    /\ rv.chunks < MaxChunks
    /\ rv' = [rv EXCEPT !.chunks = @ + 1, !.bad = @ + 1]
    /\ UNCHANGED <<reviewText, review, isLoadingReview, error>>

ReviewStreamRetryMutant ==
    /\ rv.pc = "stream"
    /\ \E e \in StreamErrors :
          IF isRetryable(e) /\ rv.req.retries > 0
          THEN /\ rv' = [rv EXCEPT !.pc = "backoff",
                                   !.req = [rv.req EXCEPT !.pc = "wait"]]
               /\ UNCHANGED <<review, isLoadingReview, error>>
          ELSE ReviewFails(wrapError(StrFailedReview, e), rv.req)
    /\ UNCHANGED reviewText
\* the stream iterator throws
ReviewStreamError ==
    /\ rv.pc = "stream"
    /\ \E e \in StreamErrors :
          ReviewFails(wrapError(StrFailedReview, e), rv.req)
    /\ UNCHANGED reviewText

ReviewEndKeepsLoadingMutant ==
    /\ rv.pc = "stream"
    /\ rv' = [rv EXCEPT !.pc = "done"]
    /\ UNCHANGED <<reviewText, review, error, isLoadingReview>>
\* the stream ends: the generator returns, the loop ends, finally runs
ReviewStreamEnd ==
    /\ rv.pc = "stream"
    /\ rv' = [rv EXCEPT !.pc = "done"]
    /\ isLoadingReview' = FALSE
    /\ UNCHANGED <<reviewText, review, error>>

(***************************************************************************)
(* Discussion.tsx: the chat session (handleSubmit consuming                *)
(* streamChatWithPaper)                                                    *)
(***************************************************************************)
MaxExchanges == 2
MaxChatChunks == 2

TypedInputs == { <<>>, <<" ">>, <<"Q">> }
ChatFragments == { <<"Y">>, <<"Z", " ">> }

\* the locals of one handleSubmit run (streamContent, the retry in progress),
\* with the fragments received, the transcript and the question at submit
\* kept as history; bad counts the fragments whose text could not be read,
\* exchanges the accepted submissions
ChatIdle ==
    [pc |-> "idle", req |-> RetryIdle, streamContent |-> <<>>, chunks |-> 0,
     bad |-> 0, received |-> <<>>, before |-> <<>>, question |-> <<>>, exchanges |-> 0]

\* handleSubmit has returned: its locals are gone
ChatOver(pc) == [ChatIdle EXCEPT !.pc = pc, !.exchanges = ch.exchanges]

InitChat ==
    /\ ch = ChatIdle
    /\ messages = <<>>
    /\ input = <<>>
    /\ isLoading = FALSE
    /\ streamingMessage = <<>>

\* if (error && !review && !isLoadingReview): the view renders the error
\* panel alone, without the review, the transcript and the form
ErrorPanel == error # <<>> /\ review = <<>> /\ ~isLoadingReview

\* the input box (disabled while a reply is loading)
SetInput ==
    /\ ~ErrorPanel
    /\ ~isLoading
    /\ \E t \in TypedInputs : t # input /\ input' = t
    /\ UNCHANGED <<ch, messages, isLoading, streamingMessage, error>>

\* handleQuestionClick on one of the suggested questions shown
ClickQuestion ==
    /\ ~ErrorPanel
    /\ ~isLoadingReview
    /\ review # <<>>
    /\ "suggestedQuestions" \in DOMAIN Head(review)
    /\ \E q \in Range(Head(review).suggestedQuestions) : q # input /\ input' = q
    /\ UNCHANGED <<ch, messages, isLoading, streamingMessage, error>>

\* if (!input.trim() || isLoading) return
SubmitIgnored ==
    /\ ~ErrorPanel
    /\ Len(trim(input)) = 0 \/ isLoading
    /\ UNCHANGED <<ch, messages, input, isLoading, streamingMessage, error>>

ChatFailsKeepStreamingMutant(e, msgs) ==
    /\ error' = << messageOf(e, StrUnexpected) >>
    /\ messages' = Append(msgs, errorMessage(messageOf(e, StrUnexpected)))
    /\ UNCHANGED streamingMessage
    /\ isLoading' = FALSE
\* the generator throws e: handleSubmit's catch and finally
ChatFails(e, msgs) ==
    /\ error' = << messageOf(e, StrUnexpected) >>
    /\ messages' = Append(msgs, errorMessage(messageOf(e, StrUnexpected)))
    /\ streamingMessage' = <<>>
    /\ isLoading' = FALSE

SubmitWhileLoadingMutant ==
    /\ ~ErrorPanel
    /\ Len(trim(input)) > 0
    /\ ch.exchanges < MaxExchanges
    /\ input' = <<>>
    /\ LET started == [ChatIdle EXCEPT !.req = RetryStart,
                                       !.before = messages, !.question = input,
                                       !.exchanges = ch.exchanges + 1]
       IN  IF ~model
           THEN /\ ChatFails(Thrown(TRUE, StrNotInitialized),
                             Append(messages, userMessage(input)))
                /\ ch' = [ChatOver("failed") EXCEPT !.exchanges = @ + 1]
           ELSE /\ messages' = Append(messages, userMessage(input))
                /\ isLoading' = TRUE
                /\ error' = <<>>
                /\ streamingMessage' = << streamingMsg(<<>>) >>
                /\ ch' = [started EXCEPT !.pc = "request"]
\* handleSubmit up to the first request
Submit ==
    /\ ~ErrorPanel
    /\ Len(trim(input)) > 0
    /\ ~isLoading
    /\ ch.exchanges < MaxExchanges
    /\ input' = <<>>
    /\ LET started == [ChatIdle EXCEPT !.req = RetryStart,
                                       !.before = messages, !.question = input,
                                       !.exchanges = ch.exchanges + 1]
       IN  IF ~model
           THEN /\ ChatFails(Thrown(TRUE, StrNotInitialized),
                             Append(messages, userMessage(input)))
                /\ ch' = [ChatOver("failed") EXCEPT !.exchanges = @ + 1]
           ELSE /\ messages' = Append(messages, userMessage(input))
                /\ isLoading' = TRUE
                /\ error' = <<>>
                /\ streamingMessage' = << streamingMsg(<<>>) >>
                /\ ch' = [started EXCEPT !.pc = "request"]

\* the retried request model.generateContentStream(systemPrompt) settles
ChatRequest ==
    /\ ch.pc = "request"
    /\ \E o \in StreamOutcomes :
          LET r == RetryCall(ch.req, o)
          IN  CASE r.pc = "returned" ->
                      /\ ch' = [ch EXCEPT !.pc = "stream", !.req = r]
                      /\ UNCHANGED <<messages, isLoading, streamingMessage, error>>
                [] r.pc = "wait" ->
                      /\ ch' = [ch EXCEPT !.pc = "backoff", !.req = r]
                      /\ UNCHANGED <<messages, isLoading, streamingMessage, error>>
                [] OTHER ->
                      /\ ChatFails(wrapError(StrFailedChat, Head(r.thrown)),
                                   messages)
                      /\ ch' = ChatOver("failed")
    /\ UNCHANGED input

ChatBackoff ==
    /\ ch.pc = "backoff"
    /\ ch' = [ch EXCEPT !.pc = "request", !.req = RetryWake(ch.req)]
    /\ UNCHANGED <<messages, input, isLoading, streamingMessage, error>>

ChatChunkLastOnlyMutant ==
    /\ ch.pc = "stream"
    /\ ch.chunks < MaxChatChunks
    /\ \E chunk \in ChatFragments :
          LET streamContent == ch.streamContent \o chunk
          IN  /\ ch' = [ch EXCEPT !.streamContent = streamContent,
                                  !.chunks = @ + 1,
                                  !.received = Append(@, chunk)]
              /\ streamingMessage' = << streamingMsg(chunk) >>
    /\ UNCHANGED <<messages, input, isLoading, error>>
\* a fragment with readable text arrives
ChatChunk ==
    /\ ch.pc = "stream"
    /\ ch.chunks < MaxChatChunks
    /\ \E chunk \in ChatFragments :
          LET streamContent == ch.streamContent \o chunk
          IN  /\ ch' = [ch EXCEPT !.streamContent = streamContent,
                                  !.chunks = @ + 1,
                                  !.received = Append(@, chunk)]
              /\ streamingMessage' = << streamingMsg(streamContent) >>
    /\ UNCHANGED <<messages, input, isLoading, error>>

\* a fragment whose text() throws: logged, nothing yielded
ChatBadChunk ==
    /\ ch.pc = "stream"
    /\ ch.chunks < MaxChatChunks
    /\ ch' = [ch EXCEPT !.chunks = @ + 1, !.bad = @ + 1]
    /\ UNCHANGED <<messages, input, isLoading, streamingMessage, error>>

\* the stream iterator throws
ChatStreamError ==
    /\ ch.pc = "stream"
    /\ \E e \in StreamErrors :
          ChatFails(wrapError(StrFailedChat, e), messages)
    /\ ch' = ChatOver("failed")
    /\ UNCHANGED input

FinalizeInPlaceMutant ==
    /\ ch.pc = "stream"
    /\ messages' = [messages EXCEPT ![Len(messages)] =
                                      assistantMessage(ch.streamContent)]
    /\ streamingMessage' = <<>>
    /\ isLoading' = FALSE
    /\ ch' = ChatOver("done")
    /\ UNCHANGED <<input, error>>
\* the stream ends: the reply is appended to the transcript
ChatStreamEnd ==
    /\ ch.pc = "stream"
    /\ messages' = Append(messages, assistantMessage(ch.streamContent))
    /\ streamingMessage' = <<>>
    /\ isLoading' = FALSE
    /\ ch' = ChatOver("done")
    /\ UNCHANGED <<input, error>>

(***************************************************************************)
(* PaperDetail.tsx: the note (generateNote consuming generateObsidianNote)  *)
(***************************************************************************)
MaxNotes == 2
MaxNoteChunks == 2

NoteFragments == { <<"#">>, <<"N", " ">> }

\* the locals of one generateNote run (content, the retry in progress), with
\* the fragments received kept as history; bad counts the fragments whose
\* text could not be read, runs the clicks on Generate Note
NoteIdle ==
    [pc |-> "idle", req |-> RetryIdle, content |-> <<>>, chunks |-> 0,
     bad |-> 0, received |-> <<>>, runs |-> 0]

\* generateNote has returned: its locals are gone
NoteOver(pc) == [NoteIdle EXCEPT !.pc = pc, !.runs = nt.runs]

InitNote ==
    /\ nt = NoteIdle
    /\ noteContent = <<>>
    /\ isGeneratingNote = FALSE
    /\ noteError = <<>>

\* the generator throws e: generateNote's catch and finally
NoteFails(e) ==
    /\ noteError' = << messageOf(e, StrNoteFallback) >>
    /\ isGeneratingNote' = FALSE
    /\ UNCHANGED noteContent

\* the Generate Note button (disabled while a note is being generated)
GenerateNote ==
    /\ ~isGeneratingNote
    /\ nt.runs < MaxNotes
    /\ IF ~model
       THEN /\ NoteFails(Thrown(TRUE, StrNotInitialized))
            /\ nt' = [NoteOver("failed") EXCEPT !.runs = @ + 1]
       ELSE /\ isGeneratingNote' = TRUE
            /\ noteError' = <<>>
            /\ nt' = [NoteIdle EXCEPT !.pc = "request", !.req = RetryStart,
                                      !.runs = nt.runs + 1]
            /\ UNCHANGED noteContent

\* the retried request model.generateContentStream(prompt) settles
NoteRequest ==
    /\ nt.pc = "request"
    /\ \E o \in StreamOutcomes :
          LET r == RetryCall(nt.req, o)
          IN  CASE r.pc = "returned" ->
                      /\ nt' = [nt EXCEPT !.pc = "stream", !.req = r]
                      /\ UNCHANGED <<noteContent, isGeneratingNote, noteError>>
                [] r.pc = "wait" ->
                      /\ nt' = [nt EXCEPT !.pc = "backoff", !.req = r]
                      /\ UNCHANGED <<noteContent, isGeneratingNote, noteError>>
                [] OTHER ->
                      /\ NoteFails(wrapError(StrFailedNote, Head(r.thrown)))
                      /\ nt' = NoteOver("failed")

NoteBackoff ==
    /\ nt.pc = "backoff"
    /\ nt' = [nt EXCEPT !.pc = "request", !.req = RetryWake(nt.req)]
    /\ UNCHANGED <<noteContent, isGeneratingNote, noteError>>

\* a fragment with readable text arrives: content += chunk, setNoteContent
NoteChunk ==
    /\ nt.pc = "stream"
    /\ nt.chunks < MaxNoteChunks
    /\ \E chunk \in NoteFragments :
          LET content == nt.content \o chunk
          IN  /\ nt' = [nt EXCEPT !.content = content, !.chunks = @ + 1,
                                  !.received = Append(@, chunk)]
              /\ noteContent' = content
    /\ UNCHANGED <<isGeneratingNote, noteError>>

\* a fragment whose text() throws: logged, nothing yielded
NoteBadChunk ==
    /\ nt.pc = "stream"
    /\ nt.chunks < MaxNoteChunks
    /\ nt' = [nt EXCEPT !.chunks = @ + 1, !.bad = @ + 1]
    /\ UNCHANGED <<noteContent, isGeneratingNote, noteError>>

\* the stream iterator throws
NoteStreamError ==
    /\ nt.pc = "stream"
    /\ \E e \in StreamErrors : NoteFails(wrapError(StrFailedNote, e))
    /\ nt' = NoteOver("failed")

\* the stream ends: the loop ends, finally runs
NoteStreamEnd ==
    /\ nt.pc = "stream"
    /\ isGeneratingNote' = FALSE
    /\ nt' = NoteOver("done")
    /\ UNCHANGED <<noteContent, noteError>>

(***************************************************************************)
(* Specifications                                                          *)
(***************************************************************************)
IdleList ==
    /\ fetched = <<>>
    /\ papers = <<>>
    /\ searchQuery = <<>>
    /\ sortBy = "date_desc"
    /\ selectedTags = <<>>
    /\ view = <<>>
    /\ availableTags = <<>>
    /\ rendered = FALSE

IdleAI == apiKey = <<>> /\ model = FALSE

IdleReview ==
    /\ reviewText = Unformed(<<>>)
    /\ rv = ReviewIdle
    /\ review = <<>>
    /\ isLoadingReview = TRUE
    /\ error = <<>>

\* the paper list
NextList ==
    \/ Render /\ UNCHANGED <<op, aiVars, reviewVars, error, chatVars, noteVars>>
    \/ SetSearchQuery /\ UNCHANGED <<op, aiVars, reviewVars, error, chatVars, noteVars>>
    \/ SetSortBy /\ UNCHANGED <<op, aiVars, reviewVars, error, chatVars, noteVars>>
    \/ ToggleTag /\ UNCHANGED <<op, aiVars, reviewVars, error, chatVars, noteVars>>
    \/ Recompute /\ UNCHANGED <<op, aiVars, reviewVars, error, chatVars, noteVars>>

InitSpecList ==
    InitList /\ op = RetryIdle /\ IdleAI /\ IdleReview /\ InitChat /\ InitNote

SpecList == InitSpecList /\ [][NextList]_vars

\* one run of retry
NextRetry ==
    \/ OpInvoke /\ UNCHANGED <<listVars, aiVars, reviewVars, error, chatVars, noteVars>>
    \/ OpTimer /\ UNCHANGED <<listVars, aiVars, reviewVars, error, chatVars, noteVars>>

InitSpecRetry ==
    IdleList /\ InitRetry /\ IdleAI /\ IdleReview /\ InitChat /\ InitNote

SpecRetry == InitSpecRetry /\ [][NextRetry]_vars

\* a Discussion view from its mount on, the user not chatting
NextReview ==
    \/ Mount /\ UNCHANGED <<listVars, op, aiVars, chatVars, noteVars>>
    \/ ReviewRequest /\ UNCHANGED <<listVars, op, aiVars, chatVars, noteVars>>
    \/ ReviewBackoff /\ UNCHANGED <<listVars, op, aiVars, chatVars, noteVars>>
    \/ ReviewChunk /\ UNCHANGED <<listVars, op, aiVars, chatVars, noteVars>>
    \/ ReviewBadChunk /\ UNCHANGED <<listVars, op, aiVars, chatVars, noteVars>>
    \/ ReviewStreamError /\ UNCHANGED <<listVars, op, aiVars, chatVars, noteVars>>
    \/ ReviewStreamEnd /\ UNCHANGED <<listVars, op, aiVars, chatVars, noteVars>>

InitSpecReview ==
    IdleList /\ op = RetryIdle /\ InitAI /\ InitReview /\ InitChat /\ InitNote

SpecReview == InitSpecReview /\ [][NextReview]_vars

\* the review stream of the view has ended: completed after one fragment,
\* failed after one fragment, or refused because no model was initialised
ShortReview ==
    LabelSummary \o <<" ", "a", " ">> \o LabelQuestions \o <<" ", "1", ".", " ", "Q">>

ReviewEnded(pc, thrown) ==
    [ReviewIdle EXCEPT !.pc = pc, !.req = RetryCall(RetryStart, Succeeds),
                       !.fullResponse = ShortReview, !.chunks = 1,
                       !.emitted = 1, !.last = <<parseReview(ShortReview)>>,
                       !.partialReview = parseReview(ShortReview),
                       !.thrown = thrown]

InitReviewEnded ==
    /\ reviewText = Unformed(ShortReview)
    /\ isLoadingReview = FALSE
    /\ IF ~model
       THEN /\ rv = [ReviewIdle EXCEPT !.pc = "failed",
                        !.thrown = <<Thrown(TRUE, StrNotInitialized)>>]
            /\ review = <<>>
            /\ error = <<StrNotInitialized>>
       ELSE \/ /\ rv = ReviewEnded("done", <<>>)
               /\ review = <<parseReview(ShortReview)>>
               /\ error = <<>>
            \/ LET e == wrapError(StrFailedReview, Thrown(TRUE, StrNetwork))
               IN  /\ rv = ReviewEnded("failed", <<e>>)
                   /\ review = <<parseReview(ShortReview)>>
                   /\ error = <<e.message>>

\* the chat session of a Discussion view whose review stream has ended
NextChat ==
    \/ SetInput /\ UNCHANGED <<listVars, op, aiVars, reviewVars, noteVars>>
    \/ ClickQuestion /\ UNCHANGED <<listVars, op, aiVars, reviewVars, noteVars>>
    \/ SubmitIgnored /\ UNCHANGED <<listVars, op, aiVars, reviewVars, noteVars>>
    \/ Submit /\ UNCHANGED <<listVars, op, aiVars, reviewVars, noteVars>>
    \/ ChatRequest /\ UNCHANGED <<listVars, op, aiVars, reviewVars, noteVars>>
    \/ ChatBackoff /\ UNCHANGED <<listVars, op, aiVars, reviewVars, noteVars>>
    \/ ChatChunk /\ UNCHANGED <<listVars, op, aiVars, reviewVars, noteVars>>
    \/ ChatBadChunk /\ UNCHANGED <<listVars, op, aiVars, reviewVars, noteVars>>
    \/ ChatStreamError /\ UNCHANGED <<listVars, op, aiVars, reviewVars, noteVars>>
    \/ ChatStreamEnd /\ UNCHANGED <<listVars, op, aiVars, reviewVars, noteVars>>

InitSpecChat ==
    IdleList /\ op = RetryIdle /\ InitAITwo /\ InitReviewEnded /\ InitChat
    /\ InitNote

SpecChat == InitSpecChat /\ [][NextChat]_vars

\* generating notes in a paper-detail view
NextNote ==
    \/ GenerateNote /\ UNCHANGED <<listVars, op, aiVars, reviewVars, error, chatVars>>
    \/ NoteRequest /\ UNCHANGED <<listVars, op, aiVars, reviewVars, error, chatVars>>
    \/ NoteBackoff /\ UNCHANGED <<listVars, op, aiVars, reviewVars, error, chatVars>>
    \/ NoteChunk /\ UNCHANGED <<listVars, op, aiVars, reviewVars, error, chatVars>>
    \/ NoteBadChunk /\ UNCHANGED <<listVars, op, aiVars, reviewVars, error, chatVars>>
    \/ NoteStreamError /\ UNCHANGED <<listVars, op, aiVars, reviewVars, error, chatVars>>
    \/ NoteStreamEnd /\ UNCHANGED <<listVars, op, aiVars, reviewVars, error, chatVars>>

\* The three generative streams of lib/ai, each with its caller, one of them
\* exercised per behaviour: the review of a Discussion view, the chat of a
\* view whose review has ended, or the note of a paper-detail view whose
\* Discussion tab was not opened.  The response the backend holds for the
\* review tells the three apart and never changes.
OnlyReview == reviewText \in ReviewTexts
OnlyChat == reviewText = Unformed(ShortReview)
OnlyNote == reviewText = Unformed(<<>>)

InitSpecStreams ==
    /\ IdleList /\ op = RetryIdle /\ InitChat /\ InitNote
    /\ \/ InitAI /\ InitReview
       \/ InitAITwo /\ InitReviewEnded
       \/ InitAI /\ IdleReview

NextStreams ==
    \/ OnlyReview /\ Mount
          /\ UNCHANGED <<listVars, op, aiVars, chatVars, noteVars>>
    \/ OnlyReview /\ ReviewRequest
          /\ UNCHANGED <<listVars, op, aiVars, chatVars, noteVars>>
    \/ OnlyReview /\ ReviewBackoff
          /\ UNCHANGED <<listVars, op, aiVars, chatVars, noteVars>>
    \/ OnlyReview /\ ReviewChunk
          /\ UNCHANGED <<listVars, op, aiVars, chatVars, noteVars>>
    \/ OnlyReview /\ ReviewBadChunk
          /\ UNCHANGED <<listVars, op, aiVars, chatVars, noteVars>>
    \/ OnlyReview /\ ReviewStreamError
          /\ UNCHANGED <<listVars, op, aiVars, chatVars, noteVars>>
    \/ OnlyReview /\ ReviewStreamEnd
          /\ UNCHANGED <<listVars, op, aiVars, chatVars, noteVars>>
    \/ OnlyChat /\ SetInput
          /\ UNCHANGED <<listVars, op, aiVars, reviewVars, noteVars>>
    \/ OnlyChat /\ ClickQuestion
          /\ UNCHANGED <<listVars, op, aiVars, reviewVars, noteVars>>
    \/ OnlyChat /\ SubmitIgnored
          /\ UNCHANGED <<listVars, op, aiVars, reviewVars, noteVars>>
    \/ OnlyChat /\ Submit
          /\ UNCHANGED <<listVars, op, aiVars, reviewVars, noteVars>>
    \/ OnlyChat /\ ChatRequest
          /\ UNCHANGED <<listVars, op, aiVars, reviewVars, noteVars>>
    \/ OnlyChat /\ ChatBackoff
          /\ UNCHANGED <<listVars, op, aiVars, reviewVars, noteVars>>
    \/ OnlyChat /\ ChatChunk
          /\ UNCHANGED <<listVars, op, aiVars, reviewVars, noteVars>>
    \/ OnlyChat /\ ChatBadChunk
          /\ UNCHANGED <<listVars, op, aiVars, reviewVars, noteVars>>
    \/ OnlyChat /\ ChatStreamError
          /\ UNCHANGED <<listVars, op, aiVars, reviewVars, noteVars>>
    \/ OnlyChat /\ ChatStreamEnd
          /\ UNCHANGED <<listVars, op, aiVars, reviewVars, noteVars>>
    \/ OnlyNote /\ GenerateNote
          /\ UNCHANGED <<listVars, op, aiVars, reviewVars, error, chatVars>>
    \/ OnlyNote /\ NoteRequest
          /\ UNCHANGED <<listVars, op, aiVars, reviewVars, error, chatVars>>
    \/ OnlyNote /\ NoteBackoff
          /\ UNCHANGED <<listVars, op, aiVars, reviewVars, error, chatVars>>
    \/ OnlyNote /\ NoteChunk
          /\ UNCHANGED <<listVars, op, aiVars, reviewVars, error, chatVars>>
    \/ OnlyNote /\ NoteBadChunk
          /\ UNCHANGED <<listVars, op, aiVars, reviewVars, error, chatVars>>
    \/ OnlyNote /\ NoteStreamError
          /\ UNCHANGED <<listVars, op, aiVars, reviewVars, error, chatVars>>
    \/ OnlyNote /\ NoteStreamEnd
          /\ UNCHANGED <<listVars, op, aiVars, reviewVars, error, chatVars>>

SpecStreams == InitSpecStreams /\ [][NextStreams]_vars

\* A Discussion view with its review stream and its chat session running
\* side by side: the effect that starts the review runs first, and from then
\* on the user may type and submit whatever the review is doing.  Each
\* stream delivers at most MaxViewSteps fragments and the user submits at
\* most MaxViewSteps questions.
MaxViewSteps == 1

Mounted == rv.pc # "idle"

InitSpecDiscussion ==
    /\ IdleList /\ op = RetryIdle /\ InitAITwo /\ InitChat /\ InitNote
    /\ reviewText = Unformed(ShortReview)
    /\ rv = ReviewIdle
    /\ review = <<>>
    /\ isLoadingReview = TRUE
    /\ error = <<>>

NextDiscussion ==
    \/ Mount /\ UNCHANGED <<listVars, op, aiVars, chatVars, noteVars>>
    \/ ReviewRequest /\ UNCHANGED <<listVars, op, aiVars, chatVars, noteVars>>
    \/ ReviewBackoff /\ UNCHANGED <<listVars, op, aiVars, chatVars, noteVars>>
    \/ ReviewStreamError /\ UNCHANGED <<listVars, op, aiVars, chatVars, noteVars>>
    \/ ReviewStreamEnd /\ UNCHANGED <<listVars, op, aiVars, chatVars, noteVars>>
    \/ rv.chunks < MaxViewSteps /\ ReviewChunk
          /\ UNCHANGED <<listVars, op, aiVars, chatVars, noteVars>>
    \/ rv.chunks < MaxViewSteps /\ ReviewBadChunk
          /\ UNCHANGED <<listVars, op, aiVars, chatVars, noteVars>>
    \/ Mounted /\ SetInput
          /\ UNCHANGED <<listVars, op, aiVars, reviewVars, noteVars>>
    \/ Mounted /\ ClickQuestion
          /\ UNCHANGED <<listVars, op, aiVars, reviewVars, noteVars>>
    \/ Mounted /\ SubmitIgnored
          /\ UNCHANGED <<listVars, op, aiVars, reviewVars, noteVars>>
    \/ Mounted /\ ChatRequest
          /\ UNCHANGED <<listVars, op, aiVars, reviewVars, noteVars>>
    \/ Mounted /\ ChatBackoff
          /\ UNCHANGED <<listVars, op, aiVars, reviewVars, noteVars>>
    \/ Mounted /\ ChatStreamError
          /\ UNCHANGED <<listVars, op, aiVars, reviewVars, noteVars>>
    \/ Mounted /\ ChatStreamEnd
          /\ UNCHANGED <<listVars, op, aiVars, reviewVars, noteVars>>
    \/ Mounted /\ ch.exchanges < MaxViewSteps /\ Submit
          /\ UNCHANGED <<listVars, op, aiVars, reviewVars, noteVars>>
    \/ ch.chunks < MaxViewSteps /\ ChatChunk
          /\ UNCHANGED <<listVars, op, aiVars, reviewVars, noteVars>>
    \/ ch.chunks < MaxViewSteps /\ ChatBadChunk
          /\ UNCHANGED <<listVars, op, aiVars, reviewVars, noteVars>>

SpecDiscussion == InitSpecDiscussion /\ [][NextDiscussion]_vars

\* the awaits of loadInitialReview come back: the request settles, the timer
\* of a backoff fires, the stream ends or breaks, and the continuation runs
ReviewSettles ==
    /\ ReviewRequest \/ ReviewBackoff \/ ReviewStreamError \/ ReviewStreamEnd
    /\ UNCHANGED <<listVars, op, aiVars, chatVars, noteVars>>

\* the awaits of handleSubmit come back
ChatSettles ==
    /\ ChatRequest \/ ChatBackoff \/ ChatStreamError \/ ChatStreamEnd
    /\ UNCHANGED <<listVars, op, aiVars, reviewVars, noteVars>>

\* the streams, with requests that settle and streams that end (a review
\* is in flight only in the behaviours of the review, a chat exchange only
\* in those of the chat)
SpecStreamsLive ==
    SpecStreams /\ WF_vars(ReviewSettles) /\ WF_vars(ChatSettles)

(***************************************************************************)
(* Claims about the list filter/sort engine (checked under SpecList)       *)
(***************************************************************************)
\* the display name of an author as the specification words it
ClaimDisplayName(author) ==
    IF \E u \in Range(author.user) : \E f \in Range(u.fullname) : Len(f) > 0
    THEN Head(Head(author.user).fullname)
    ELSE author.name

IsSubstring(sub, s) ==
    \E i \in 0..Len(s) : \E n \in 0..(Len(s) - i) :
        SubSeq(s, i + 1, i + n) = sub

ClaimTextPredicate(p) ==
    \/ searchQuery = <<>>
    \/ IsSubstring(toLowerCase(searchQuery), toLowerCase(p.title))
    \/ IsSubstring(toLowerCase(searchQuery), toLowerCase(p.abstract))
    \/ \E a \in Range(p.authors) :
          IsSubstring(toLowerCase(searchQuery), toLowerCase(ClaimDisplayName(a)))

ClaimTagPredicate(p) == Range(selectedTags) \subseteq Range(p.tags)

NoDuplicates(s) == \A i, j \in 1..Len(s) : i # j => s[i] # s[j]

\* C1: the view holds exactly the papers of the collection that satisfy the
\* text predicate and the tag predicate, each once
C1_FilterSoundComplete ==
    rendered =>
        /\ \A p \in Range(fetched) :
              p \in Range(view) <=> (ClaimTextPredicate(p) /\ ClaimTagPredicate(p))
        /\ Range(view) \subseteq Range(fetched)
        /\ NoDuplicates(view)

\* a query with both predicates active keeps some papers and drops others,
\* one of them kept through its linked-account fullname
C1_Witness ==
    /\ rendered
    /\ searchQuery = <<"c", "a">>
    /\ selectedTags # <<>>
    /\ Len(view) >= 1
    /\ Len(view) < Len(fetched)
    /\ \E p \in Range(view) : p.id = 2
    /\ \E p \in Range(fetched) : ClaimTextPredicate(p) /\ ~ClaimTagPredicate(p)

\* C6: deriving the view again from the collection as it is now, with the
\* same query, gives the same papers in the same order
C6_Idempotent ==
    rendered =>
        filteredAndSortedPapers(papers, searchQuery, selectedTags, sortBy).value
            = view

\* a view with two papers that tie under the sort key, derived without filter
C6_Witness ==
    /\ rendered
    /\ searchQuery = <<>>
    /\ selectedTags = <<>>
    /\ papers # fetched
    /\ \E i \in 1..(Len(view) - 1) : compare(sortBy, view[i], view[i + 1]) = 0

\* C7: the fetched collection still holds the same papers in the same order
C7_CollectionUnchanged == papers = fetched

Titles(s) == [i \in 1..Len(s) |-> s[i].title]
Upvotes(s) == [i \in 1..Len(s) |-> s[i].upvotes]

\* C8: the view is the filtered papers, each once, in the order of the sort
\* key; upvotes 5,1,9,3 come out 9,5,3,1 and titles B,a,C come out a,B,C
C8_SortedByKey ==
    rendered =>
        /\ Range(view) = {p \in Range(fetched) :
                            /\ searchQuery = <<>> \/ searchMatches(p, toLowerCase(searchQuery))
                            /\ tagsMatch(p, selectedTags)}
        /\ NoDuplicates(view)
        /\ \A i \in 1..(Len(view) - 1) :
              /\ sortBy = "date_asc" =>
                    view[i].publicationDate <= view[i + 1].publicationDate
              /\ sortBy = "date_desc" =>
                    view[i].publicationDate >= view[i + 1].publicationDate
              /\ sortBy = "upvotes" => view[i].upvotes >= view[i + 1].upvotes
              /\ sortBy = "title" =>
                    localeCompare(view[i].title, view[i + 1].title) <= 0
        /\ (sortBy = "upvotes" /\ Len(view) = 4
               /\ Range(Upvotes(view)) = {5, 1, 9, 3})
              => Upvotes(view) = <<9, 5, 3, 1>>
        /\ (sortBy = "title" /\ Len(view) = 3
               /\ Range(Titles(view)) = {<<"B">>, <<"a">>, <<"C">>})
              => Titles(view) = << <<"a">>, <<"B">>, <<"C">> >>

\* the collection B, a, C sorted by title
C8_Witness ==
    /\ rendered
    /\ sortBy = "title"
    /\ Titles(fetched) = << <<"B">>, <<"a">>, <<"C">> >>
    /\ Titles(view) = << <<"a">>, <<"B">>, <<"C">> >>

\* C9: the tag list offered by the filter bar is the code-unit sorted,
\* duplicate-free list of all tags of the fetched collection, whatever the
\* query is
C9_TagUniverse ==
    rendered =>
        /\ Range(availableTags) = UNION {Range(p.tags) : p \in Range(fetched)}
        /\ \A i \in 1..(Len(availableTags) - 1) :
              LexCompare(availableTags[i], availableTags[i + 1], 1) < 0

\* a filtered view with fewer tags than the collection, after the collection
\* met its tags in the order a, B
C9_Witness ==
    /\ rendered
    /\ searchQuery # <<>>
    /\ selectedTags # <<>>
    /\ sortBy # "date_desc"
    /\ Len(fetched) >= 2
    /\ fetched[1].tags = << <<"a">> >>
    /\ availableTags = << <<"B">>, <<"a">> >>
    /\ UNION {Range(p.tags) : p \in Range(view)} # Range(availableTags)


(***************************************************************************)
(* Claims about retry (checked under SpecRetry)                            *)
(***************************************************************************)
\* a failure that indicates a transient network condition
ClaimNetworkFailure(o) ==
    ~o.ok /\ o.thrown.isError /\ IsSubstring(StrNetwork, o.thrown.message)

BackoffDelays == <<1000, 2000, 4000>>

\* C2: when every attempt fails with a network error the operation is invoked
\* 4 times, after waits of 1000, 2000 and 4000 ms before the 2nd, 3rd and 4th
\* invocation, and only then the failure is raised; a failure that is no
\* network error is raised after one invocation and no wait
C2_RetryPolicy ==
    /\ (op.pc = "thrown"
          /\ \A i \in 1..Len(op.outcomes) : ClaimNetworkFailure(op.outcomes[i]))
       => (op.calls = 4 /\ op.waits = BackoffDelays)
    /\ (\A i \in 1..Len(op.outcomes) : ClaimNetworkFailure(op.outcomes[i]))
       => /\ op.calls = Len(op.outcomes)
          /\ Len(op.waits) = (IF op.pc = "call" THEN op.calls ELSE op.calls - 1)
          /\ op.waits = SubSeq(BackoffDelays, 1, Len(op.waits))
    /\ (Len(op.outcomes) >= 1 /\ ~op.outcomes[1].ok
          /\ ~ClaimNetworkFailure(op.outcomes[1]))
       => /\ op.pc = "thrown"
          /\ op.thrown = <<op.outcomes[1].thrown>>
          /\ op.calls = 1
          /\ op.waits = <<>>

\* the fourth network failure has been raised
C2_Witness ==
    /\ op.pc = "thrown"
    /\ Len(op.outcomes) = 4
    /\ \A i \in 1..4 : ClaimNetworkFailure(op.outcomes[i])
    /\ op.thrown = <<op.outcomes[4].thrown>>

(***************************************************************************)
(* Claims about the review stream (checked under SpecReview)               *)
(***************************************************************************)
\* C3: once the fragments of a response of the form
\* 'SUMMARY: s NOVELTY: n QUESTIONS: 1. q1 2. q2' have all been fed, the last
\* record emitted has summary s, novelty n and the questions q1, q2, trimmed
C3_FormParsed ==
    (reviewText.form /\ rv.fullResponse = reviewText.text /\ rv.last # <<>>)
    => Head(rv.last) =
          [summary |-> trim(reviewText.s), novelty |-> trim(reviewText.n),
           suggestedQuestions |-> <<trim(reviewText.q1), trim(reviewText.q2)>>]

\* C4: when the review stream fails after at least one fragment was processed
\* the failure has reached the view, the review state holds the partial review
\* built for the last fragment, the error is recorded and the flag cleared
C4_ReviewNotRolledBack ==
    (rv.pc = "failed" /\ rv.emitted >= 1)
    => /\ rv.thrown # <<>>
       /\ review # <<>>
       /\ review = <<rv.partialReview>>
       /\ \A f \in DOMAIN Head(rv.last) : Head(review)[f] = Head(rv.last)[f]
       /\ error = <<Head(rv.thrown).message>>
       /\ isLoadingReview = FALSE

\* a stream that failed with a network error after two fragments, the last
\* of them carrying a summary and a novelty
C4_Witness ==
    /\ rv.pc = "failed"
    /\ rv.emitted = 2
    /\ review # <<>>
    /\ DOMAIN Head(rv.last) = {"summary", "novelty"}
    /\ error = <<StrFailedReview \o StrNetwork>>
    /\ ~isLoadingReview

(***************************************************************************)
(* Claims about the chat session (checked under SpecChat)                  *)
(***************************************************************************)
RECURSIVE Concat(_)
\* the fragments joined in the order received
Concat(fragments) ==
    IF fragments = <<>> THEN <<>>
    ELSE Head(fragments) \o Concat(Tail(fragments))

\* C5: when the reply stream fails after fragments were received, their text
\* is still shown after the failure is handled: in a message of the
\* transcript or in the in-progress message
C5_PartialReplyKept ==
    [][ (ch.pc = "stream" /\ ch.streamContent # <<>> /\ ch'.pc = "failed")
        => \/ \E i \in 1..Len(messages') :
                 IsSubstring(ch.streamContent, messages'[i].content)
           \/ /\ streamingMessage' # <<>>
              /\ IsSubstring(ch.streamContent, Head(streamingMessage').content)
      ]_vars

\* C10: when a reply stream ends without failure the transcript is the one at
\* submit plus the question plus one assistant message whose content is the
\* fragments received, in order, and which has no in-progress flag; the
\* in-progress message and the loading flag are cleared
C10_ChatCompletion ==
    [][ (ch.pc = "stream" /\ ch'.pc = "done")
        => /\ messages' = ch.before \o
                 << [role |-> "user", content |-> ch.question],
                    [role |-> "assistant", content |-> Concat(ch.received)] >>
           /\ streamingMessage' = <<>>
           /\ isLoading' = FALSE
      ]_vars

\* the second exchange completed after the fragments Y and Z
C10_Witness ==
    /\ ch.pc = "done"
    /\ Len(messages) = 4
    /\ messages[3].role = "user"
    /\ messages[4] = [role |-> "assistant", content |-> <<"Y", "Z", " ">>]
    /\ streamingMessage = <<>>
    /\ ~isLoading

\* a step in which a chat exchange fails: at the first call of the generator
\* (no model), at the request or while the fragments are delivered
ChatFailureStep ==
    /\ ch'.pc = "failed"
    /\ ch.pc \in {"request", "stream"} \/ ch'.exchanges # ch.exchanges

IsPrefix(a, b) == Len(a) <= Len(b) /\ SubSeq(b, 1, Len(a)) = a

\* C11: when a chat exchange fails, the transcript gains, after the question,
\* exactly one assistant message, 'Error: ' followed by the error text (the
\* not-initialised text, or the text of a failed generation); the in-progress
\* message and the loading flag are cleared and the handler has returned
C11_ChatFailureHandled ==
    [][ ChatFailureStep
        => LET asked == IF ch.pc \in {"request", "stream"} THEN messages
                        ELSE Append(messages,
                                    [role |-> "user", content |-> input])
               last == messages'[Len(messages')]
           IN  /\ Len(messages') = Len(asked) + 1
               /\ SubSeq(messages', 1, Len(asked)) = asked
               /\ asked[Len(asked)].role = "user"
               /\ DOMAIN last = {"role", "content"}
               /\ last.role = "assistant"
               /\ error' # <<>>
               /\ last.content = <<"E", "r", "r", "o", "r", ":", " ">>
                                    \o Head(error')
               /\ IF model THEN IsPrefix(StrFailedChat, Head(error'))
                           ELSE Head(error') = StrNotInitialized
               /\ streamingMessage' = <<>>
               /\ isLoading' = FALSE
               /\ ch'.req = RetryIdle
      ]_vars

\* the second exchange failed with a network error after the first got the
\* reply Y
C11_Witness ==
    /\ ch.pc = "failed"
    /\ Len(messages) = 4
    /\ messages[2] = [role |-> "assistant", content |-> <<"Y">>]
    /\ messages[3].role = "user"
    /\ messages[4].content = StrErrorPrefix \o StrFailedChat \o StrNetwork
    /\ error = <<StrFailedChat \o StrNetwork>>
    /\ streamingMessage = <<>>
    /\ ~isLoading

\* C12: every step leaves the messages of the transcript where and as they
\* are and can only add messages after them; no message of the transcript is
\* an in-progress one
C12_TranscriptAppendOnly ==
    [][ /\ IsPrefix(messages, messages')
        /\ \A i \in 1..Len(messages') :
              "isStreaming" \notin DOMAIN messages'[i]
      ]_vars

\* a reply appended after an earlier exchange that failed, while the
\* in-progress message was replaced twice
C12_Witness ==
    /\ ch.pc = "done"
    /\ Len(messages) = 4
    /\ IsPrefix(StrErrorPrefix, messages[2].content)
    /\ messages[4] = [role |-> "assistant", content |-> <<"Z", " ", "Y">>]
    /\ streamingMessage = <<>>

(***************************************************************************)
(* Claims about the three generative streams (checked under SpecStreams)   *)
(***************************************************************************)
\* the credential is missing or not longer than 20 characters
ClaimNoCredential == apiKey = <<>> \/ Len(Head(apiKey)) <= 20

\* a retry that never invoked the request and never waited
NeverRequested(r) == r.calls = 0 /\ r.waits = <<>> /\ r.outcomes = <<>>

\* C13: without a valid credential the review, the chat and the note are
\* never at a request, a backoff or a stream: each call has failed at once,
\* no request was invoked and no wait made, and the failure shown is the
\* not-initialised error
C13_UninitialisedBlocks ==
    ClaimNoCredential
    => /\ rv.pc \in {"idle", "failed"}
       /\ NeverRequested(rv.req)
       /\ rv.pc = "failed"
          => /\ rv.thrown = <<Thrown(TRUE, StrNotInitialized)>>
             /\ error = <<StrNotInitialized>>
             /\ review = <<>>
       /\ ch.pc \in {"idle", "failed"}
       /\ NeverRequested(ch.req)
       /\ ~isLoading
       /\ Len(messages) = 2 * ch.exchanges
       /\ \A i \in 1..ch.exchanges :
             /\ messages[2 * i - 1].role = "user"
             /\ messages[2 * i] =
                   [role |-> "assistant",
                    content |-> <<"E", "r", "r", "o", "r", ":", " ">>
                                   \o StrNotInitialized]
       /\ nt.pc \in {"idle", "failed"}
       /\ NeverRequested(nt.req)
       /\ ~isGeneratingNote
       /\ noteContent = <<>>
       /\ nt.runs > 0 => noteError = <<StrNotInitialized>>

\* with a credential of 20 characters the note was asked for twice and
\* refused twice
C13_Witness ==
    /\ apiKey = KeyOfLength(20)
    /\ ~model
    /\ nt.pc = "failed"
    /\ nt.runs = 2
    /\ noteError = <<StrNotInitialized>>
    /\ NeverRequested(nt.req)

\* C14: a step that delivers a fragment whose text cannot be read leaves the
\* stream running and changes neither the buffer nor what was emitted or is
\* shown, and sets no error; and while a stream runs, whatever unreadable
\* fragments came before, the buffer is the readable fragments joined in
\* order, one item emitted for each of them
C14_MalformedSkipped ==
    /\ [][ /\ rv'.bad = rv.bad + 1
              => /\ rv'.pc = "stream"
                 /\ rv'.fullResponse = rv.fullResponse
                 /\ rv'.emitted = rv.emitted
                 /\ rv'.last = rv.last
                 /\ review' = review
                 /\ isLoadingReview' = isLoadingReview
                 /\ error' = error
           /\ ch'.bad = ch.bad + 1
              => /\ ch'.pc = "stream"
                 /\ ch'.streamContent = ch.streamContent
                 /\ streamingMessage' = streamingMessage
                 /\ messages' = messages
                 /\ isLoading' = isLoading
                 /\ error' = error
           /\ nt'.bad = nt.bad + 1
              => /\ nt'.pc = "stream"
                 /\ nt'.content = nt.content
                 /\ noteContent' = noteContent
                 /\ isGeneratingNote' = isGeneratingNote
                 /\ noteError' = noteError
         ]_vars
    /\ [](/\ rv.pc = "stream"
             => /\ rv.fullResponse \o rv.rest = reviewText.text
                /\ rv.emitted = rv.chunks - rv.bad
                /\ rv.emitted > 0 => rv.last = <<parseReview(rv.fullResponse)>>
          /\ ch.pc = "stream"
             => /\ ch.streamContent = Concat(ch.received)
                /\ Len(ch.received) = ch.chunks - ch.bad
                /\ streamingMessage =
                      <<[role |-> "assistant", content |-> Concat(ch.received),
                         isStreaming |-> TRUE]>>
          /\ nt.pc = "stream"
             => /\ nt.content = Concat(nt.received)
                /\ Len(nt.received) = nt.chunks - nt.bad
                /\ nt.received # <<>> => noteContent = Concat(nt.received))

\* a review stream that has read a whole response after an unreadable
\* fragment
C14_Witness ==
    /\ rv.pc = "stream"
    /\ rv.bad = 1
    /\ rv.chunks = 3
    /\ rv.emitted = 2
    /\ rv.rest = <<>>
    /\ reviewText = ExampleReview
    /\ review = <<parseReview(ExampleReview.text)>>

\* the request has returned a stream: every invocation before the last failed
\* with a network error and was followed by one wait, the last succeeded, and
\* a request that succeeded at once was invoked once, with no wait
ClaimRequestSettled(r) ==
    /\ r.pc = "returned"
    /\ r.calls = Len(r.outcomes)
    /\ r.calls >= 1
    /\ r.outcomes[r.calls].ok
    /\ \A i \in 1..(r.calls - 1) : ClaimNetworkFailure(r.outcomes[i])
    /\ Len(r.waits) = r.calls - 1
    /\ r.outcomes[1].ok => (r.calls = 1 /\ r.waits = <<>>)

\* C15: while fragments are delivered the request has settled, and no step
\* taken then invokes it again or waits: the stream goes on, ends, or fails,
\* and a failure reaches the caller in that step (the error is shown) with
\* the count of invocations and the waits as they were
C15_NoRetryMidStream ==
    /\ [][ /\ rv.pc = "stream"
              => /\ rv'.pc \in {"stream", "done", "failed"}
                 /\ rv'.req = rv.req
                 /\ rv'.pc = "failed"
                    => /\ rv'.thrown # <<>>
                       /\ IsPrefix(StrFailedReview, Head(rv'.thrown).message)
                       /\ error' = <<Head(rv'.thrown).message>>
           /\ ch.pc = "stream"
              => /\ ch'.pc \in {"stream", "done", "failed"}
                 /\ ch'.pc = "stream" => ch'.req = ch.req
                 /\ ch'.pc = "failed"
                    => /\ error' # <<>>
                       /\ IsPrefix(StrFailedChat, Head(error'))
                       /\ ~isLoading'
           /\ nt.pc = "stream"
              => /\ nt'.pc \in {"stream", "done", "failed"}
                 /\ nt'.pc = "stream" => nt'.req = nt.req
                 /\ nt'.pc = "failed"
                    => /\ noteError' # <<>>
                       /\ IsPrefix(StrFailedNote, Head(noteError'))
                       /\ ~isGeneratingNote'
         ]_vars
    /\ [](/\ rv.pc = "stream" => ClaimRequestSettled(rv.req)
          /\ (rv.pc = "failed" /\ rv.chunks > 0) => ClaimRequestSettled(rv.req)
          /\ ch.pc = "stream" => ClaimRequestSettled(ch.req)
          /\ nt.pc = "stream" => ClaimRequestSettled(nt.req))

\* a review whose request succeeded at once and whose stream failed after a
\* readable and an unreadable fragment
C15_Witness ==
    /\ rv.pc = "failed"
    /\ rv.req.pc = "returned"
    /\ rv.req.calls = 1
    /\ rv.req.waits = <<>>
    /\ rv.emitted = 1
    /\ rv.bad = 1
    /\ error = <<StrFailedReview \o <<"q", "u", "o", "t", "a">> >>

(***************************************************************************)
(* Further claims about retry (checked under SpecRetry)                    *)
(***************************************************************************)
\* the waits made so far start at 1000 ms and double each time
ClaimBackoffDoubles ==
    \A i \in 1..Len(op.waits) :
        op.waits[i] = (IF i = 1 THEN 1000 ELSE 2 * op.waits[i - 1])

\* C16 as stated: the request is attempted at most 3 times, with a backoff
\* that starts at 1000 ms and doubles on each retry
C16_AtMostThreeAttempts ==
    op.calls <= 3 /\ ClaimBackoffDoubles

\* C16 as amended: the request is attempted at most 4 times (one attempt and
\* 3 retries), with a backoff that starts at 1000 ms and doubles on each retry
C16_AtMostFourAttempts ==
    /\ op.calls <= 4
    /\ Len(op.waits) <= 3
    /\ ClaimBackoffDoubles

\* the fourth attempt succeeded after three network failures
C16_Witness ==
    /\ op.pc = "returned"
    /\ op.calls = 4
    /\ op.waits = <<1000, 2000, 4000>>
    /\ op.outcomes[4].ok

(***************************************************************************)
(* Further claims about the review stream (checked under SpecReview)       *)
(***************************************************************************)
\* the text of the fragments the backend has delivered so far, joined
ClaimDelivered(r) ==
    SubSeq(reviewText.text, 1, Len(reviewText.text) - Len(r.rest))

\* C17: each fragment read makes the parser emit one record, the section
\* extraction of the text of all fragments delivered so far joined in order;
\* no record is emitted otherwise
C17_RecordPerFragment ==
    /\ [][ (rv.pc = "stream" /\ rv'.chunks = rv.chunks + 1 /\ rv'.bad = rv.bad)
           => /\ rv'.emitted = rv.emitted + 1
              /\ rv'.last = <<parseReview(ClaimDelivered(rv'))>>
         ]_vars
    /\ [][ rv'.emitted # rv.emitted
           => (rv.pc = "stream" /\ rv'.chunks = rv.chunks + 1
                               /\ rv'.bad = rv.bad)
         ]_vars
    /\ [](rv.emitted = rv.chunks - rv.bad)

\* the example response read in three fragments, the stream ended
C17_Witness ==
    /\ rv.pc = "done"
    /\ reviewText = ExampleReview
    /\ rv.chunks = 3
    /\ rv.bad = 0
    /\ rv.emitted = 3
    /\ rv.rest = <<>>
    /\ rv.last = <<[summary |-> <<"A", " ", "p", "a", "p", "e", "r", ".">>,
                    novelty |-> <<"I", "t", " ", "i", "s", " ", "n", "e", "w", ".">>,
                    suggestedQuestions |-> <<StrWhy, StrHow>>]>>

\* C18: once a fragment has been consumed, the review the view holds is the
\* record extracted from the text delivered so far: it has the fields of that
\* record, with their values, and no other field
C18_ReviewIsLatestRecord ==
    rv.emitted > 0 => review = <<parseReview(ClaimDelivered(rv))>>

\* C19: whenever the parser emits a record after an earlier one, the summary
\* and the novelty of the earlier record are still fields of the new one and
\* are prefixes of their new values; as a stream may end after any fragment,
\* this is what makes every emitted value a prefix of the final one
C19_FieldsArePrefixes ==
    [][ (rv.last # <<>> /\ rv'.emitted = rv.emitted + 1)
        => \A f \in {"summary", "novelty"} \cap DOMAIN Head(rv.last) :
              /\ f \in DOMAIN Head(rv'.last)
              /\ IsPrefix(Head(rv.last)[f], Head(rv'.last)[f])
      ]_vars

(***************************************************************************)
(* Claims about a whole Discussion view (checked under SpecDiscussion)     *)
(***************************************************************************)
ReviewInFlight == rv.pc \in {"request", "backoff", "stream"}
ChatInFlight == ch.pc \in {"request", "backoff", "stream"}

\* C20: the review stream and the chat reply stream of a view never change a
\* common state variable while the other is in flight: no step of the review
\* changes `error` (the one variable both write) during a chat exchange, and
\* no step of the chat changes it during the review
C20_NoSharedWrites ==
    [][ /\ (rv' # rv /\ error' # error) => ~ChatInFlight
        /\ (ch' # ch /\ error' # error) => ~ReviewInFlight
      ]_vars

\* C21: after a chat exchange has failed the loading flag is false, there is
\* no in-progress message, and the view still shows the transcript and the
\* form rather than the error panel
C21_ChatFailureRecoverable ==
    ch.pc = "failed"
    => /\ ~isLoading
       /\ streamingMessage = <<>>
       /\ ~(error # <<>> /\ review = <<>> /\ ~isLoadingReview)

(***************************************************************************)
(* Further claims about retry (checked under SpecRetry)                    *)
(***************************************************************************)
RECURSIVE ClaimLeadingNetworkFailures(_)
\* how many network failures the outcomes start with
ClaimLeadingNetworkFailures(outs) ==
    IF outs = <<>> \/ ~ClaimNetworkFailure(Head(outs)) THEN 0
    ELSE 1 + ClaimLeadingNetworkFailures(Tail(outs))

ClaimMin(a, b) == IF a <= b THEN a ELSE b

\* C22: retry goes on only after network failures; it returns at the first
\* success and raises the first failure that is no network failure, or the
\* fourth network failure, with no wait after it; the invocations made are 1
\* plus the leading network failures, at most 4
C22_StopsAtFirstDecisive ==
    /\ op.calls = Len(op.outcomes)
    /\ \A i \in 1..(op.calls - 1) : ClaimNetworkFailure(op.outcomes[i])
    /\ op.pc \in {"call", "wait"}
       => /\ \A i \in 1..op.calls : ClaimNetworkFailure(op.outcomes[i])
          /\ op.calls <= 3
    /\ op.pc = "returned" => op.outcomes[op.calls].ok
    /\ op.pc = "thrown"
       => /\ ~op.outcomes[op.calls].ok
          /\ op.thrown = <<op.outcomes[op.calls].thrown>>
          /\ ClaimNetworkFailure(op.outcomes[op.calls]) => op.calls = 4
    /\ op.pc \in {"returned", "thrown"}
       => /\ op.calls =
                ClaimMin(4, 1 + ClaimLeadingNetworkFailures(op.outcomes))
          /\ Len(op.waits) = op.calls - 1

\* a quota error at the third attempt, after two network failures, raised
\* with two waits made
C22_Witness ==
    /\ op.pc = "thrown"
    /\ op.calls = 3
    /\ op.waits = <<1000, 2000>>
    /\ op.thrown = <<Thrown(TRUE, <<"q", "u", "o", "t", "a">>)>>

(***************************************************************************)
(* Further claims about the review parser (checked under SpecReview)       *)
(***************************************************************************)
\* a text with no white space at its start or its end
ClaimTrimmed(s) ==
    s = <<>> \/ (s[1] \notin {" ", "\n", "\t"} /\ s[Len(s)] \notin {" ", "\n", "\t"})

\* C23: in every record the parser emits, a summary or novelty that is
\* present has no white space at its ends, and suggested questions that are
\* present are a list of at least one entry, each of them non-empty and
\* without white space at its ends
C23_FieldsTrimmed ==
    rv.last # <<>>
    => LET r == Head(rv.last)
       IN  /\ "summary" \in DOMAIN r => ClaimTrimmed(r.summary)
           /\ "novelty" \in DOMAIN r => ClaimTrimmed(r.novelty)
           /\ "suggestedQuestions" \in DOMAIN r
              => /\ Len(r.suggestedQuestions) >= 1
                 /\ \A i \in 1..Len(r.suggestedQuestions) :
                       /\ r.suggestedQuestions[i] # <<>>
                       /\ ClaimTrimmed(r.suggestedQuestions[i])

\* a record emitted for a buffer that ends in white space after the second
\* question's number: one question, and a novelty cut back to its text
C23_Witness ==
    /\ rv.last # <<>>
    /\ reviewText = ExampleReview
    /\ rv.fullResponse # <<>>
    /\ rv.fullResponse[Len(rv.fullResponse)] = " "
    /\ DOMAIN Head(rv.last) = {"summary", "novelty", "suggestedQuestions"}
    /\ Head(rv.last).suggestedQuestions = <<StrWhy>>

(***************************************************************************)
(* Further claims about the paper list (checked under SpecList)            *)
(***************************************************************************)
\* C24: once rendered, the view is the current query applied to the
\* collection as it was fetched, ties in the fetched order included
C24_ViewOfFetched ==
    rendered
    => view = filteredAndSortedPapers(fetched, searchQuery, selectedTags,
                                      sortBy).value

(***************************************************************************)
(* Claims about note generation (checked under SpecStreams)                *)
(***************************************************************************)
NoteInFlight == nt.pc \in {"request", "backoff", "stream"}

\* C25: while a note is being generated, the note shown is the fragments
\* received so far in this run, joined in order (empty before the first)
C25_NoteIsFragments ==
    NoteInFlight => noteContent = Concat(nt.received)

(***************************************************************************)
(* Further claims about the chat (checked under SpecChat)                  *)
(***************************************************************************)
\* C26: there is an in-progress assistant message only while a chat exchange
\* is in flight; its content is the fragments received so far joined in
\* order; no message of the transcript is an in-progress message
C26_InProgressMessage ==
    /\ streamingMessage # <<>>
       => /\ ChatInFlight
          /\ Head(streamingMessage).role = "assistant"
          /\ Head(streamingMessage).content = Concat(ch.received)
    /\ \A i \in 1..Len(messages) :
          /\ "isStreaming" \notin DOMAIN messages[i]
          /\ streamingMessage # <<>> => messages[i] # Head(streamingMessage)

\* the second fragment of a reply has arrived and is shown behind the first
C26_Witness ==
    /\ ch.pc = "stream"
    /\ ch.received = << <<"Z", " ">>, <<"Y">> >>
    /\ streamingMessage = << streamingMsg(<<"Z", " ", "Y">>) >>
    /\ Len(messages) = 1

\* C27: the loading indicator is on exactly while a chat exchange is in
\* flight. While one is in flight no step begins another (no exchange is
\* counted and no user message is appended). While none is in flight and the
\* input is empty or white space only, no step changes anything but the
\* input box: no message is appended and no request is issued
C27_SubmissionIgnored ==
    /\ [](ChatInFlight <=> isLoading)
    /\ [][ChatInFlight
          => /\ ch'.exchanges = ch.exchanges
             /\ \A i \in (Len(messages) + 1)..Len(messages') :
                   messages'[i].role # "user"]_vars
    /\ [][(~ChatInFlight /\ Len(trim(input)) = 0)
          => /\ ch' = ch
             /\ messages' = messages
             /\ isLoading' = isLoading
             /\ streamingMessage' = streamingMessage
             /\ error' = error]_vars

\* a question was clicked into the input while a reply is streaming: a
\* submission would now be ignored
C27_Witness ==
    /\ ChatInFlight
    /\ isLoading
    /\ Len(trim(input)) > 0
    /\ ch.exchanges = 1
    /\ Len(ch.received) = 1

\* C28: whenever no chat exchange is in flight the transcript has even
\* length and its messages are, in turn, of the user and of the assistant
C28_TranscriptAlternates ==
    ~ChatInFlight
    => /\ Len(messages) % 2 = 0
       /\ \A i \in 1..Len(messages) :
             messages[i].role = IF i % 2 = 1 THEN "user" ELSE "assistant"

\* two exchanges are over, the first failed and the second completed
C28_Witness ==
    /\ ch.pc = "done"
    /\ ch.exchanges = 2
    /\ Len(messages) = 4
    /\ IsPrefix(StrErrorPrefix, messages[2].content)
    /\ messages[4].content = <<"Y">>
    /\ ~isLoading

(***************************************************************************)
(* Termination (checked under SpecStreamsLive)                             *)
(***************************************************************************)
\* C29: when no chat exchange is in flight the loading indicator is off and
\* there is no in-progress message, and once the review stream has completed
\* or failed the review loading flag is off; every chat exchange in flight
\* leads to such a state, and a review stream in flight leads to the review
\* loading flag being off
C29_LoadingCleared ==
    /\ [](~ChatInFlight => ~isLoading /\ streamingMessage = <<>>)
    /\ [](rv.pc \in {"done", "failed"} => ~isLoadingReview)
    /\ (ChatInFlight ~> (~ChatInFlight /\ ~isLoading /\ streamingMessage = <<>>))
    /\ (ReviewInFlight ~> ~isLoadingReview)

\* the review stream broke after a fragment, and a chat exchange of the
\* same view has completed
C29_Witness ==
    /\ rv.pc = "failed"
    /\ rv.chunks = 1
    /\ ~isLoadingReview
    /\ ch.pc = "done"
    /\ Len(messages) = 2
    /\ messages[2].content = <<"Y">>
    /\ ~isLoading
    /\ streamingMessage = <<>>

====
